---- MODULE Spec2Model ----
(***************************************************************************)
(* State machine of the gps-relativity simulation driver                   *)
(* (src/gps-relativity/app.js, entities/satellite.js, ui.js).              *)
(*                                                                         *)
(* Units.  JavaScript numbers are modelled in fixed point:                 *)
(*   real and simulated durations   microseconds                           *)
(*   Date values (getTime)          milliseconds since page load           *)
(*   satellite phase angle          microradians                           *)
(*   body rotations                 nanoradians                            *)
(*   elapsed-time accumulators      a JS value [k, us, ps]: kind, whole    *)
(*                                  microseconds and a picosecond residue  *)
(***************************************************************************)
EXTENDS Integers, Sequences, FiniteSets, TLC

\* ------------------------------------------------------------------ bounds
MaxFrames == 3          \* frames of animate explored
MaxDtSteps == 2         \* the longest real frame delta, in quanta of 75 ms

\* clock.getDelta(): real microseconds since the previous frame, in quanta of
\* 75 ms, so that deltas below, at and above the 0.1 s clamp occur
RealDts == { k * 75000 : k \in 0..MaxDtSteps }

\* --------------------------------------------------------------- JS values
Undefined == [k |-> "undefined", v |-> 0]
Null == [k |-> "null", v |-> 0]
Num(n) == [k |-> "number", v |-> n]

\* ToBoolean of a JS value: undefined, null, NaN and 0 are falsy.
Truthy(x) == x.k = "number" /\ x.v # 0

\* a || b
JsOr(a, b) == IF Truthy(a) THEN a ELSE b

\* elapsed-time accumulators: whole microseconds plus a picosecond residue
TUndefined == [k |-> "undefined", us |-> 0, ps |-> 0]
TNaN == [k |-> "NaN", us |-> 0, ps |-> 0]
TNum(us, ps) == [k |-> "number", us |-> us, ps |-> ps]

\* a + b on elapsed times: undefined converts to NaN, NaN is absorbing.
TAdd(a, b) ==
    IF a.k = "number" /\ b.k = "number"
    THEN TNum(a.us + b.us, a.ps + b.ps)
    ELSE TNaN

\* a - b on elapsed times.
TSub(a, b) ==
    IF a.k = "number" /\ b.k = "number"
    THEN TNum(a.us - b.us, a.ps - b.ps)
    ELSE TNaN

\* a >= b on elapsed times: every comparison with NaN or undefined is false.
\* The picosecond residue stays far below one microsecond within the bounds.
TGe(a, b) ==
    /\ a.k = "number"
    /\ b.k = "number"
    /\ \/ a.us > b.us
       \/ a.us = b.us /\ a.ps >= b.ps

\* a === b on elapsed times: NaN is not equal to itself.
TEq(a, b) ==
    IF a.k = "number" /\ b.k = "number"
    THEN a.us = b.us /\ a.ps = b.ps
    ELSE a.k = b.k /\ a.k # "NaN"

\* floor(a * b / d) without leaving 32 bits (a, b >= 0, b * d < 2^31)
MulDiv(a, b, d) == (a \div d) * b + ((a % d) * b) \div d

Min(a, b) == IF a <= b THEN a ELSE b

RECURSIVE SqrtSearch(_, _, _)
SqrtSearch(n, lo, hi) ==
    IF lo >= hi THEN lo
    ELSE LET mid == (lo + hi + 1) \div 2
         IN IF mid * mid <= n THEN SqrtSearch(n, mid, hi)
                              ELSE SqrtSearch(n, lo, mid - 1)

\* Math.sqrt on non-negative integers below 2^31, rounded down
Sqrt(n) == SqrtSearch(n, 0, 46340)

\* ------------------------------------------------------- physical constants
R_EARTH == 6371000          \* metres
GM_EARTH_KM3 == 398600      \* G * earthMass, km^3 / s^2
TWO_C2_PPT == 179751        \* 2 c^2 / 10^12, (m/s)^2
GM_OVER_C2_UM == 4435       \* G * earthMass / c^2, micrometres
TwoPi == 6283185            \* 2 * Math.PI, microradians

EARTH_ORBIT_SPEED == 200        \* nanoradians per simulated second
EARTH_ROTATION_SPEED == 72921   \* nanoradians per simulated second
MOON_ORBIT_SPEED == 2662        \* nanoradians per simulated second

\* 1 - sqrt(1 - v^2 / c^2), in parts per 10^12 (first order in v^2 / c^2)
getSpecialRelativityFactor(velocity) == (velocity * velocity) \div TWO_C2_PPT

\* 1 - sqrt(1 - 2 G M / (r c^2)), in parts per 10^12 (first order)
getGeneralRelativityFactor(realRadius) ==
    (GM_OVER_C2_UM * 1000) \div (realRadius \div 1000)

\* -------------------------------------------------------------- satellites
NumSats == 5
SatIndex == 0..(NumSats - 1)

SATELLITE_REGISTRY ==
    [i \in SatIndex |->
        CASE i = 0 -> [id |-> "ISS-ALPHA", type |-> "STATION", altitude |-> 408000]
          [] i = 1 -> [id |-> "CHRONOS-01", type |-> "GPS", altitude |-> 20200000]
          [] i = 2 -> [id |-> "AURA-NET", type |-> "LEO", altitude |-> 1200000]
          [] i = 3 -> [id |-> "STAR-LINK", type |-> "COMM", altitude |-> 550000]
          [] i = 4 -> [id |-> "SPECTER-9", type |-> "RELAY", altitude |-> 15000000]]

\* Math.sqrt(G * earthMass / realRadius), metres per second
OrbitalVelocity(realRadius) ==
    Sqrt(((GM_EARTH_KM3 * 1000) \div (realRadius \div 1000)) * 1000)

\* velocity / realRadius, microradians per second
AngularVelocity(velocity, realRadius) ==
    (velocity * 1000) \div (realRadius \div 1000)

\* realRadius * VISUAL_SCALE with VISUAL_SCALE = 100 / R_EARTH, in thousandths
\* of a scene unit
VisualRadius(realRadius) == MulDiv(realRadius \div 1000, 100000, R_EARTH \div 1000)

\* Math.random() * Math.PI * 2 takes any value in [0, 2 pi).  The model draws
\* each satellite's angle from the two ends of that interval, the satellites
\* below some index from the lower end and the others from the upper end.
InitAngles ==
    { [i \in SatIndex |-> IF i < k THEN 0 ELSE TwoPi - 1] : k \in 0..NumSats }

\* userData of satellite i with its random initial angle; earthTime and
\* satTime are not among the properties the constructor sets.
SatelliteUserData(i, angle) ==
    LET config == SATELLITE_REGISTRY[i]
        realRadius == R_EARTH + config.altitude
        velocity == OrbitalVelocity(realRadius)
    IN [id |-> config.id,
        type |-> config.type,
        altitude |-> config.altitude,
        visualRadius |-> VisualRadius(realRadius),
        realRadius |-> realRadius,
        velocity |-> velocity,
        angularVelocity |-> AngularVelocity(velocity, realRadius),
        angle |-> angle,
        earthTime |-> TUndefined,
        satTime |-> TUndefined]

createSatellites(angles) == [i \in SatIndex |-> SatelliteUserData(i, angles[i])]

\* d.angle += d.angularVelocity * dt
AngleStep(angle, angularVelocity, dt) == angle + MulDiv(dt, angularVelocity, 1000000)

\* dt * getSpecialRelativityFactor(v) * getGeneralRelativityFactor(r)
DilatedDt(dt, velocity, realRadius) ==
    TNum(dt, 0 - MulDiv(dt, getSpecialRelativityFactor(velocity)
                              + getGeneralRelativityFactor(realRadius), 1000000))

\* the step recomputing the angular speed each frame, from the scene radius
StepSatellite_Recomputes(d, dt) ==
    [d EXCEPT !.angle = AngleStep(d.angle, d.angularVelocity, dt),
              !.angularVelocity = AngularVelocity(d.velocity, d.visualRadius),
              !.earthTime = TAdd(d.earthTime, TNum(dt, 0)),
              !.satTime = TAdd(d.satTime, DilatedDt(dt, d.velocity, d.realRadius))]

StepSatellite(d, dt) ==
    [d EXCEPT !.angle = AngleStep(d.angle, d.angularVelocity, dt),
              !.earthTime = TAdd(d.earthTime, TNum(dt, 0)),
              !.satTime = TAdd(d.satTime, DilatedDt(dt, d.velocity, d.realRadius))]

updateSatellites(sats, dt) == [i \in SatIndex |-> StepSatellite(sats[i], dt)]

\* ---------------------------------------- construction from any registry
\* The same construction for a registry other than the shipped one, with the
\* results JavaScript's arithmetic gives where a radius is 0: a positive
\* number divided by 0 is Infinity, Infinity * 0 is NaN, and Math.cos and
\* Math.sin of a value that is not finite are NaN.
JsInfinity == [k |-> "Infinity", v |-> 0]
JsNaN == [k |-> "NaN", v |-> 0]
IsNumber(x) == x.k = "number"

\* Math.sqrt(G * earthMass / realRadius)
JsOrbitalVelocity(realRadius) ==
    IF realRadius = 0 THEN JsInfinity ELSE Num(OrbitalVelocity(realRadius))

\* velocity / realRadius
JsAngularVelocity(velocity, realRadius) ==
    CASE velocity.k = "NaN" -> JsNaN
      [] velocity.k = "Infinity" -> JsInfinity
      [] OTHER -> IF realRadius # 0
                  THEN Num(AngularVelocity(velocity.v, realRadius))
                  ELSE IF velocity.v = 0 THEN JsNaN ELSE JsInfinity

\* the altitudes tried in place of a registry entry: the one that puts the
\* orbit at the centre of the Earth, and an ordinary one
ProbeAltitudes == {0 - R_EARTH, 408000}

Registries ==
    { [i \in SatIndex |->
          IF i = slot
          THEN [SATELLITE_REGISTRY[i] EXCEPT !.altitude = altitude]
          ELSE SATELLITE_REGISTRY[i]] :
      slot \in SatIndex, altitude \in ProbeAltitudes }

\* as SatelliteUserData, for the entry config; the mesh starts at the origin
JsUserData(config, angle) ==
    LET realRadius == R_EARTH + config.altitude
        velocity == JsOrbitalVelocity(realRadius)
    IN [id |-> config.id,
        type |-> config.type,
        altitude |-> config.altitude,
        visualRadius |-> IF realRadius = 0 THEN 0 ELSE VisualRadius(realRadius),
        realRadius |-> realRadius,
        velocity |-> velocity,
        angularVelocity |-> JsAngularVelocity(velocity, realRadius),
        angle |-> Num(angle),
        positionIsNumber |-> TRUE,
        earthTime |-> TUndefined,
        satTime |-> TUndefined]

createSatellitesFrom(registry, angles) ==
    [i \in SatIndex |-> JsUserData(registry[i], angles[i])]

\* d.angle += d.angularVelocity * dt
JsAngleStep(angle, angularVelocity, dt) ==
    CASE angle.k = "NaN" \/ angularVelocity.k = "NaN" -> JsNaN
      [] angularVelocity.k = "Infinity" -> IF dt = 0 THEN JsNaN ELSE JsInfinity
      [] angle.k = "Infinity" -> JsInfinity
      [] OTHER -> Num(AngleStep(angle.v, angularVelocity.v, dt))

JsStepSatellite(d, dt) ==
    LET angle == JsAngleStep(d.angle, d.angularVelocity, dt)
    IN [d EXCEPT !.angle = angle,
                 !.positionIsNumber = IsNumber(angle),
                 !.earthTime = TAdd(d.earthTime, TNum(dt, 0)),
                 !.satTime = IF IsNumber(d.velocity)
                             THEN TAdd(d.satTime,
                                       DilatedDt(dt, d.velocity.v, d.realRadius))
                             ELSE TNaN]

updateSatellitesFrom(sats, dt) == [i \in SatIndex |-> JsStepSatellite(sats[i], dt)]

\* ------------------------------------------------------------------- state
VARIABLES
    simulatedTime,        \* simulatedTime.getTime(), ms since page load
    wallTime,             \* the host's real clock, microseconds since page load
    timeScale,            \* module variable timeScale of app.js
    windowTimeScale,      \* the property window.timeScale
    trackingMode,
    focusTarget,          \* [type, index]
    activeSatIndex,
    satellites,           \* userData of each satellite
    earthOrbitPivotRotY,  \* earthOrbitPivot.rotation.y
    earthRotY,            \* earth.rotation.y
    cloudsRotY,           \* clouds.rotation.y
    moonOrbitPivotRotY,   \* moonOrbitPivot.rotation.y
    moonMeshRotY,         \* moonMesh.rotation.y, local to moonOrbitPivot
    moonMeshAzimuth,      \* azimuth of moonMesh.position about the pivot's y axis
    frames,               \* frames of animate run so far
    frameStatus,          \* how the latest frame ended
    frameRequested,       \* a call of animate is pending (requestAnimationFrame)
    simulatedElapsed,     \* history: sum of the dt given to updateSatellites
    matrixWorld,          \* the local transforms scene.updateMatrixWorld last used
    pc,                   \* 0, or the position in FrameSteps of a running frame
    frameDt,              \* scaledDt of the running frame
    frameStart,           \* history: the state the running frame started from
    targetPos             \* targetPos of the running frame

vars == <<simulatedTime, wallTime, timeScale, windowTimeScale, trackingMode,
          focusTarget, activeSatIndex, satellites, earthOrbitPivotRotY,
          earthRotY, cloudsRotY, moonOrbitPivotRotY, moonMeshRotY,
          moonMeshAzimuth, frames, frameStatus, frameRequested,
          simulatedElapsed, matrixWorld, pc, frameDt, frameStart, targetPos>>

focusVars == <<trackingMode, focusTarget, activeSatIndex>>
moonMeshVars == <<moonMeshRotY, moonMeshAzimuth>>
bodyVars == <<earthOrbitPivotRotY, earthRotY, cloudsRotY, moonOrbitPivotRotY,
              moonMeshVars>>
stepVars == <<pc, frameDt, frameStart, targetPos>>
frameVars == <<frames, frameStatus, frameRequested, simulatedElapsed,
               matrixWorld, stepVars>>

\* values of the locals of animate while no frame runs
NoFrame == [running |-> FALSE]
NoTarget == [read |-> FALSE]

INITIAL_TIME_SCALE == 1

\* Math.PI / 2, nanoradians
HALF_PI == 1570796327

Init ==
    /\ simulatedTime = 0
    /\ wallTime = 0
    /\ timeScale = INITIAL_TIME_SCALE
    /\ windowTimeScale = Undefined
    /\ trackingMode = "EARTH"
    /\ focusTarget = [type |-> "SYSTEM", index |-> Null]
    /\ activeSatIndex = 0
    /\ \E angles \in InitAngles : satellites = createSatellites(angles)
    /\ earthOrbitPivotRotY = 0
    /\ earthRotY = 0
    /\ cloudsRotY = 0
    /\ moonOrbitPivotRotY = 0
    /\ moonMeshRotY = HALF_PI
    /\ moonMeshAzimuth = 0
    /\ frames = 0
    /\ frameStatus = "none"
    /\ frameRequested = TRUE
    /\ simulatedElapsed = 0
    /\ matrixWorld = [updated |-> FALSE]
    /\ pc = 0
    /\ frameDt = 0
    /\ frameStart = NoFrame
    /\ targetPos = NoTarget

\* ------------------------------------------------------------- UI handlers
SelectInputs == (0 - 1)..NumSats
Modes == {"SUN", "EARTH", "MOON", "SATELLITE"}
SpeedInputs == {0, 500, 100001}

\* satellites[index] is an element of the array
IsSatellite(index) == index \in SatIndex

\* The three assignments run first; targetSat.getWorldPosition then throws a
\* TypeError when satellites[index] is undefined, which ends the handler
\* before the camera is moved and undoes none of the assignments.
onSelectGPS(index) ==
    /\ focusTarget' = [type |-> "SATELLITE", index |-> Num(index)]
    /\ trackingMode' = "SATELLITE"
    /\ activeSatIndex' = index
    /\ UNCHANGED <<simulatedTime, wallTime, timeScale, windowTimeScale,
                   satellites, bodyVars, frameVars>>

\* onModeChange without the block that defaults the satellite index
onModeChange_NoDefaultIndex(mode) ==
    /\ focusTarget' = [type |-> mode, index |-> Null]
    /\ trackingMode' = mode
    /\ UNCHANGED <<simulatedTime, wallTime, timeScale, windowTimeScale,
                   activeSatIndex, satellites, bodyVars, frameVars>>

\* onModeChange focusing satellite 0 without making it the active one
onModeChange_KeepsActive(mode) ==
    /\ focusTarget' = [type |-> mode,
                       index |-> IF mode = "SATELLITE" THEN Num(0) ELSE Null]
    /\ trackingMode' = mode
    /\ UNCHANGED <<simulatedTime, wallTime, timeScale, windowTimeScale,
                   activeSatIndex, satellites, bodyVars, frameVars>>

onModeChange(mode) ==
    /\ focusTarget' = IF mode = "SATELLITE"
                      THEN [type |-> "SATELLITE", index |-> Num(0)]
                      ELSE [type |-> mode, index |-> Null]
    /\ trackingMode' = mode
    /\ activeSatIndex' = IF mode = "SATELLITE" THEN 0 ELSE activeSatIndex
    /\ UNCHANGED <<simulatedTime, wallTime, timeScale, windowTimeScale,
                   satellites, bodyVars, frameVars>>

\* onSpeedChange restarting the simulated clock as well
onSpeedChange_RestartsClock(val) ==
    /\ timeScale' = val
    /\ simulatedTime' = wallTime \div 1000
    /\ UNCHANGED <<wallTime, windowTimeScale, focusVars, satellites, bodyVars,
                   frameVars>>

onSpeedChange(val) ==
    /\ timeScale' = val
    /\ UNCHANGED <<simulatedTime, wallTime, windowTimeScale, focusVars,
                   satellites, bodyVars, frameVars>>

\* new Date(): the host's clock, truncated to whole milliseconds.  The host's
\* clock is sampled as of the latest frame: real time that passes between a
\* frame and a handler is counted in the next getDelta.
NewDate(now) == now \div 1000

onReset ==
    /\ simulatedTime' = NewDate(wallTime)
    /\ UNCHANGED <<wallTime, timeScale, windowTimeScale, focusVars,
                   satellites, bodyVars, frameVars>>

selectGPS(detail) == onSelectGPS(detail)

\* the back button changing the tracking mode only
backToSystem_KeepsFocus ==
    /\ trackingMode' = "EARTH"
    /\ UNCHANGED <<focusTarget, simulatedTime, wallTime, timeScale,
                   windowTimeScale, activeSatIndex, satellites, bodyVars,
                   frameVars>>

\* the back button resetting the focus but not the tracking mode
backToSystem_KeepsTracking ==
    /\ focusTarget' = [type |-> "SYSTEM", index |-> Null]
    /\ UNCHANGED <<trackingMode, simulatedTime, wallTime, timeScale,
                   windowTimeScale, activeSatIndex, satellites, bodyVars,
                   frameVars>>

backToSystem ==
    /\ focusTarget' = [type |-> "SYSTEM", index |-> Null]
    /\ trackingMode' = "EARTH"
    /\ UNCHANGED <<simulatedTime, wallTime, timeScale, windowTimeScale,
                   activeSatIndex, satellites, bodyVars, frameVars>>

\* A pick: whether the ray met anything, and satellites.indexOf of the
\* object the hit resolved to (-1 when it is no member of the array).
Picks == {[hit |-> FALSE, index |-> 0 - 1]}
            \cup {[hit |-> TRUE, index |-> i] : i \in (0 - 1)..(NumSats - 1)}

\* click without the test of indexOf's result
click_Unguarded(pick) ==
    IF pick.hit
    THEN onSelectGPS(pick.index)
    ELSE UNCHANGED vars

click(pick) ==
    IF pick.hit /\ pick.index # 0 - 1
    THEN onSelectGPS(pick.index)
    ELSE UNCHANGED vars

\* ------------------------------------------------------------------- frame
MAX_PHYSICS_DT == 100000    \* 0.1 s, microseconds

\* the frame delta used unclamped
PhysicsDt_Unclamped(dt) == dt

\* Math.min(realDt, 0.1)
PhysicsDt(dt) == Min(dt, MAX_PHYSICS_DT)

\* window.timeScale || 1000
EffectiveTimeScale(w) == JsOr(w, Num(1000)).v

\* physicsDt * (window.timeScale || 1000), simulated microseconds
ScaledDt(dt, w) == PhysicsDt(dt) * EffectiveTimeScale(w)

\* the scaled delta subtracted instead of added
AdvanceDate_Backwards(t, dt) == t - (dt \div 1000)

\* new Date(t.getTime() + scaledDt * 1000): the time value is truncated to
\* whole milliseconds
AdvanceDate(t, dt) == t + (dt \div 1000)

\* rotation.y += speed * scaledDt, nanoradians
Rotate(rot, speed, dt) == rot + MulDiv(dt \div 1000, speed, 1000)

\* updateUI routes to renderSatelliteDetail, which reads sat.userData
UpdateUIThrows(focus) ==
    focus.type = "SATELLITE" /\ ~(focus.index.k = "number" /\ IsSatellite(focus.index.v))

\* requestAnimationFrame(animate) is the first statement of animate, so the
\* next frame is requested whatever the rest of the frame does.
\* The local transforms of the scene graph that the frame loop writes.
LocalTransforms ==
    [updated |-> TRUE,
     earthOrbitPivot |-> earthOrbitPivotRotY,
     earth |-> earthRotY,
     clouds |-> cloudsRotY,
     moonOrbitPivot |-> moonOrbitPivotRotY,
     angle |-> [i \in SatIndex |-> satellites[i].angle]]

\* What the frame's world-position query returns, as the local transforms
\* that determine it: getWorldPosition of the tracked object.  With an
\* activeSatIndex outside the array the optional call is skipped and
\* targetPos stays the origin.
TargetWorldPosition ==
    CASE trackingMode = "SATELLITE" ->
            IF IsSatellite(activeSatIndex)
            THEN [of |-> "satellite", index |-> activeSatIndex,
                  anchor |-> earthOrbitPivotRotY,
                  angle |-> satellites[activeSatIndex].angle]
            ELSE [of |-> "origin"]
      [] trackingMode = "MOON" ->
            [of |-> "moon", anchor |-> earthOrbitPivotRotY,
             orbit |-> moonOrbitPivotRotY]
      [] trackingMode = "SUN" -> [of |-> "origin"]
      [] OTHER -> [of |-> "earth", anchor |-> earthOrbitPivotRotY]

\* The frame apart from the call of updateSatellites.
FrameAround(dt) ==
    /\ pc = 0
    /\ frames < MaxFrames
    /\ frameRequested
    /\ frameRequested' = TRUE
    /\ wallTime' = wallTime + dt
    /\ LET scaledDt == ScaledDt(dt, windowTimeScale)
       IN /\ simulatedTime' = AdvanceDate(simulatedTime, scaledDt)
          /\ earthOrbitPivotRotY' = Rotate(earthOrbitPivotRotY, EARTH_ORBIT_SPEED, scaledDt)
          /\ earthRotY' = Rotate(earthRotY, EARTH_ROTATION_SPEED, scaledDt)
          /\ cloudsRotY' = Rotate(cloudsRotY, (EARTH_ROTATION_SPEED * 105) \div 100, scaledDt)
          /\ moonOrbitPivotRotY' = Rotate(moonOrbitPivotRotY, MOON_ORBIT_SPEED, scaledDt)
          /\ simulatedElapsed' = simulatedElapsed + scaledDt
    /\ frameStatus' = IF UpdateUIThrows(focusTarget) THEN "TypeError" ELSE "rendered"
    /\ frames' = frames + 1
    /\ UNCHANGED <<timeScale, windowTimeScale, focusVars, moonMeshVars, stepVars>>

\* moonMesh is a child of moonOrbitPivot, which turns about the y axis of
\* earthGroup: its heading and the azimuth of its position, both in
\* earthGroup's frame, are the pivot's rotation plus the local values.  (The
\* pivot's fixed inclination about z is the same in both and left out.)
MoonYaw_Unparented == moonMeshRotY
MoonYaw == moonOrbitPivotRotY + moonMeshRotY
MoonAzimuth == moonOrbitPivotRotY + moonMeshAzimuth

animate(dt) ==
    /\ FrameAround(dt)
    /\ satellites' = updateSatellites(satellites, ScaledDt(dt, windowTimeScale))
    /\ matrixWorld' = LocalTransforms'

\* ------------------------------------------------- the frame, step by step
\* The statements of animate after the delta is taken, in program order.
\* (The older copy of the driver moved the camera target before the
\* satellites were updated.)
FrameSteps_TargetFirst ==
    <<"simulatedTime", "bodies", "targetPos", "updateSatellites",
      "updateMatrixWorld", "render">>

FrameSteps ==
    <<"simulatedTime", "bodies", "updateSatellites", "updateMatrixWorld",
      "targetPos", "render">>

At(step) == pc \in 1..Len(FrameSteps) /\ FrameSteps[pc] = step

inputVars == <<timeScale, windowTimeScale, focusVars>>

\* requestAnimationFrame, clock.getDelta, physicsDt, scaledDt
stepGetDelta(dt) ==
    /\ pc = 0
    /\ frames < MaxFrames
    /\ frameRequested
    /\ frameRequested' = TRUE
    /\ wallTime' = wallTime + dt
    /\ frameDt' = ScaledDt(dt, windowTimeScale)
    /\ frameStart' = [running |-> TRUE,
                      simulatedTime |-> simulatedTime,
                      satellites |-> satellites,
                      bodies |-> bodyVars]
    /\ pc' = 1
    /\ UNCHANGED <<simulatedTime, inputVars, satellites, bodyVars, frames,
                   frameStatus, simulatedElapsed, matrixWorld, targetPos>>

stepSimulatedTime ==
    /\ At("simulatedTime")
    /\ simulatedTime' = AdvanceDate(simulatedTime, frameDt)
    /\ pc' = pc + 1
    /\ UNCHANGED <<wallTime, inputVars, satellites, bodyVars, frames,
                   frameStatus, frameRequested, simulatedElapsed, matrixWorld,
                   frameDt, frameStart, targetPos>>

stepBodies ==
    /\ At("bodies")
    /\ earthOrbitPivotRotY' = Rotate(earthOrbitPivotRotY, EARTH_ORBIT_SPEED, frameDt)
    /\ earthRotY' = Rotate(earthRotY, EARTH_ROTATION_SPEED, frameDt)
    /\ cloudsRotY' = Rotate(cloudsRotY, (EARTH_ROTATION_SPEED * 105) \div 100, frameDt)
    /\ moonOrbitPivotRotY' = Rotate(moonOrbitPivotRotY, MOON_ORBIT_SPEED, frameDt)
    /\ pc' = pc + 1
    /\ UNCHANGED <<simulatedTime, wallTime, inputVars, satellites,
                   moonMeshVars, frames, frameStatus, frameRequested,
                   simulatedElapsed, matrixWorld, frameDt, frameStart,
                   targetPos>>

stepUpdateSatellites ==
    /\ At("updateSatellites")
    /\ satellites' = updateSatellites(satellites, frameDt)
    /\ simulatedElapsed' = simulatedElapsed + frameDt
    /\ pc' = pc + 1
    /\ UNCHANGED <<simulatedTime, wallTime, inputVars, bodyVars, frames,
                   frameStatus, frameRequested, matrixWorld, frameDt,
                   frameStart, targetPos>>

stepUpdateMatrixWorld ==
    /\ At("updateMatrixWorld")
    /\ matrixWorld' = LocalTransforms
    /\ pc' = pc + 1
    /\ UNCHANGED <<simulatedTime, wallTime, inputVars, satellites, bodyVars,
                   frames, frameStatus, frameRequested, simulatedElapsed,
                   frameDt, frameStart, targetPos>>

stepTargetPos ==
    /\ At("targetPos")
    /\ targetPos' = [read |-> TRUE,
                     position |-> TargetWorldPosition,
                     fromMatrixWorld |-> matrixWorld]
    /\ pc' = pc + 1
    /\ UNCHANGED <<simulatedTime, wallTime, inputVars, satellites, bodyVars,
                   frames, frameStatus, frameRequested, simulatedElapsed,
                   matrixWorld, frameDt, frameStart>>

\* updateUI, controls.update and the two renderers; the locals go out of scope
stepRender ==
    /\ At("render")
    /\ frameStatus' = IF UpdateUIThrows(focusTarget) THEN "TypeError" ELSE "rendered"
    /\ frames' = frames + 1
    /\ pc' = 0
    /\ frameDt' = 0
    /\ frameStart' = NoFrame
    /\ targetPos' = NoTarget
    /\ UNCHANGED <<simulatedTime, wallTime, inputVars, satellites, bodyVars,
                   frameRequested, simulatedElapsed, matrixWorld>>

\* Handlers run between frames only: the page has one thread.  The handlers
\* here are those that change what the frame tracks.
NextSteps ==
    \/ \E dt \in RealDts : stepGetDelta(dt)
    \/ stepSimulatedTime
    \/ stepBodies
    \/ stepUpdateSatellites
    \/ stepUpdateMatrixWorld
    \/ stepTargetPos
    \/ stepRender
    \/ pc = 0 /\ \E index \in SelectInputs : selectGPS(index)
    \/ pc = 0 /\ \E mode \in Modes : onModeChange(mode)
    \/ pc = 0 /\ backToSystem

SpecSteps == Init /\ [][NextSteps]_vars

Next ==
    \/ \E dt \in RealDts : animate(dt)
    \/ \E index \in SelectInputs : selectGPS(index)
    \/ \E mode \in Modes : onModeChange(mode)
    \/ \E val \in SpeedInputs : onSpeedChange(val)
    \/ onReset
    \/ backToSystem
    \/ \E pick \in Picks : click(pick)

Spec == Init /\ [][Next]_vars

\* The inputs the page's own controls produce: an entry of the fleet overview
\* dispatches selectGPS with the index of a listed satellite (ui.js:110-113).
ListInputs == SatIndex

NextUI ==
    \/ \E dt \in RealDts : animate(dt)
    \/ \E index \in ListInputs : selectGPS(index)
    \/ \E mode \in Modes : onModeChange(mode)
    \/ \E val \in SpeedInputs : onSpeedChange(val)
    \/ onReset
    \/ backToSystem
    \/ \E pick \in Picks : click(pick)

SpecUI == Init /\ [][NextUI]_vars

\* The program built from any of the registries, then left to run its frames.
InitFrom ==
    /\ simulatedTime = 0
    /\ wallTime = 0
    /\ timeScale = INITIAL_TIME_SCALE
    /\ windowTimeScale = Undefined
    /\ trackingMode = "EARTH"
    /\ focusTarget = [type |-> "SYSTEM", index |-> Null]
    /\ activeSatIndex = 0
    /\ \E registry \in Registries, angles \in InitAngles :
          satellites = createSatellitesFrom(registry, angles)
    /\ earthOrbitPivotRotY = 0
    /\ earthRotY = 0
    /\ cloudsRotY = 0
    /\ moonOrbitPivotRotY = 0
    /\ moonMeshRotY = HALF_PI
    /\ moonMeshAzimuth = 0
    /\ frames = 0
    /\ frameStatus = "none"
    /\ frameRequested = TRUE
    /\ simulatedElapsed = 0
    /\ matrixWorld = [updated |-> FALSE]
    /\ pc = 0
    /\ frameDt = 0
    /\ frameStart = NoFrame
    /\ targetPos = NoTarget

animateFrom(dt) ==
    /\ FrameAround(dt)
    /\ satellites' = updateSatellitesFrom(satellites, ScaledDt(dt, windowTimeScale))
    /\ matrixWorld' = LocalTransforms'

NextFrom == \E dt \in RealDts : animateFrom(dt)

SpecFrom == InitFrom /\ [][NextFrom]_vars

\* ================================================================== claims
\* Steps of the frame loop, and what a frame did, read off a pair of states.
IsFrame == frames' = frames + 1
FrameRealDt == wallTime' - wallTime
FrameAdvance == simulatedTime' - simulatedTime
AngleAdvance(i) == satellites'[i].angle - satellites[i].angle

\* The time-scale input has been used: onSpeedChange is the only writer of
\* timeScale and no input of the model equals the initial value.
SpeedWasSet == timeScale # INITIAL_TIME_SCALE

\* range of the speed input
MIN_TIME_SCALE == 1
MAX_TIME_SCALE == 100000
ClampScale(v) ==
    IF v < MIN_TIME_SCALE THEN MIN_TIME_SCALE
    ELSE IF v > MAX_TIME_SCALE THEN MAX_TIME_SCALE ELSE v

\* milliseconds the claims expect a frame of real delta dt to add to the
\* simulated timestamp under multiplier v
ExpectedAdvance(dt, v) == MulDiv(Min(dt, MAX_PHYSICS_DT), v, 1000)

\* C1: once the time-scale input has been changed to v, a frame advances the
\* simulated timestamp by (real delta clamped to 0.1 s) * v and each
\* satellite's phase by its angular velocity times that simulated dt.
C1_ScaleTakesEffect ==
    [][(IsFrame /\ SpeedWasSet) =>
          /\ FrameAdvance = ExpectedAdvance(FrameRealDt, timeScale)
          /\ \A i \in SatIndex :
                AngleAdvance(i) =
                    MulDiv(ExpectedAdvance(FrameRealDt, timeScale),
                           satellites[i].angularVelocity, 1000)]_vars

\* C2: with the time scale set to 0 a frame leaves the simulated timestamp
\* and every satellite's phase angle and elapsed times as they were.
C2_ZeroScaleFreezes ==
    [][(IsFrame /\ timeScale = 0) =>
          /\ simulatedTime' = simulatedTime
          /\ \A i \in SatIndex :
                /\ satellites'[i].angle = satellites[i].angle
                /\ satellites'[i].earthTime = satellites[i].earthTime
                /\ satellites'[i].satTime = satellites[i].satTime]_vars

\* C3: every satellite's phase angle lies in [0, 2 pi) in every reachable state.
C3_AngleNormalized ==
    \A i \in SatIndex : satellites[i].angle >= 0 /\ satellites[i].angle < TwoPi

\* C4: selecting a satellite index outside 0..NumSats-1 leaves focusTarget,
\* trackingMode and activeSatIndex as they were.
C4_OutOfRangeRejected ==
    [][\A index \in SelectInputs \ SatIndex :
          selectGPS(index) => UNCHANGED focusVars]_vars

\* C5 as stated: no operation ever lowers the simulated timestamp.
C5_NeverDecreases == [][simulatedTime' >= simulatedTime]_vars

\* C5 as amended: a step that lowers the simulated timestamp is a clock reset,
\* which sets it to the current real time and runs no frame; frames and
\* time-scale changes never lower it.
C5_OnlyResetDecreases ==
    [][\/ simulatedTime' >= simulatedTime
       \/ /\ simulatedTime' = wallTime \div 1000
          /\ frames' = frames
          /\ timeScale' = timeScale]_vars

\* A clock reset has pulled the simulated timestamp back to real time after
\* frames had advanced it, and frames have run.
C5_Witness ==
    /\ frames >= 2
    /\ wallTime > 0
    /\ simulatedTime > wallTime \div 1000
    /\ simulatedTime < simulatedElapsed \div 1000

\* C6: across every frame each satellite's earthTime and satTime are >= their
\* values before the frame.
C6_ElapsedMonotone ==
    [][IsFrame =>
          \A i \in SatIndex :
              /\ TGe(satellites'[i].earthTime, satellites[i].earthTime)
              /\ TGe(satellites'[i].satTime, satellites[i].satTime)]_vars

\* picoseconds by which the claims expect a clock of velocity v at radius r to
\* fall behind over dt simulated microseconds
ExpectedLag(dt, v, r) ==
    MulDiv(dt, getSpecialRelativityFactor(v) + getGeneralRelativityFactor(r), 1000000)

\* C7: after the frames run so far, each satellite's earthTime equals the sum
\* of the simulated dt values and satTime - earthTime equals the sum of
\* dt * (specialFactor * generalFactor - 1).
C7_ElapsedSums ==
    frames >= 1 =>
        \A i \in SatIndex :
            LET d == satellites[i]
            IN /\ TEq(d.earthTime, TNum(simulatedElapsed, 0))
               /\ TEq(TSub(d.satTime, d.earthTime),
                      TNum(0, 0 - ExpectedLag(simulatedElapsed, d.velocity, d.realRadius)))

\* C8: a frame applies at most 0.1 s * (the multiplier the frame uses) of
\* simulated time to the clock, the body rotations and the satellites,
\* however long the real delta was.
C8_DeltaClamped ==
    [][IsFrame =>
          LET maxDt == MAX_PHYSICS_DT * EffectiveTimeScale(windowTimeScale)
          IN /\ FrameAdvance <= maxDt \div 1000
             /\ simulatedElapsed' - simulatedElapsed <= maxDt
             /\ earthRotY' - earthRotY <= MulDiv(maxDt \div 1000, EARTH_ROTATION_SPEED, 1000)
             /\ moonOrbitPivotRotY' - moonOrbitPivotRotY
                    <= MulDiv(maxDt \div 1000, MOON_ORBIT_SPEED, 1000)
             /\ earthOrbitPivotRotY' - earthOrbitPivotRotY
                    <= MulDiv(maxDt \div 1000, EARTH_ORBIT_SPEED, 1000)
             /\ \A i \in SatIndex :
                    AngleAdvance(i) <= MulDiv(maxDt, satellites[i].angularVelocity, 1000000)]_vars

\* One frame has run, its real delta was above 0.1 s, and the simulated
\* timestamp stands at exactly 0.1 s times the multiplier.
C8_Witness ==
    /\ frames = 1
    /\ wallTime > MAX_PHYSICS_DT
    /\ simulatedTime = (MAX_PHYSICS_DT \div 1000) * EffectiveTimeScale(windowTimeScale)
    /\ simulatedElapsed = MAX_PHYSICS_DT * EffectiveTimeScale(windowTimeScale)

\* C9: once a value has been passed to the time-scale input, the multiplier a
\* frame uses is that value clamped into [1, 100000].
C9_ScaleClamped ==
    [][(IsFrame /\ SpeedWasSet) =>
          FrameAdvance = ExpectedAdvance(FrameRealDt, ClampScale(timeScale))]_vars

\* C10: focusTarget.index is a valid satellite index when the type is
\* SATELLITE and null when the type is SYSTEM, SUN, EARTH or MOON.
C10_FocusWellFormed ==
    /\ focusTarget.type = "SATELLITE" =>
          focusTarget.index.k = "number" /\ focusTarget.index.v \in SatIndex
    /\ focusTarget.type \in {"SYSTEM", "SUN", "EARTH", "MOON"} =>
          focusTarget.index = Null

\* C11: after any sequence of inputs from the page's controls (speed change,
\* mode change, selection from the list or by pick, back to system) every
\* frame runs through updateUI to renderer.render and the next frame has been
\* requested.
C11_FramesRender ==
    [][IsFrame => (frameStatus' = "rendered" /\ frameRequested')]_vars

\* A frame has rendered while a satellite chosen through the controls is in
\* focus and the speed input has been used.
C11_Witness ==
    /\ frames >= 2
    /\ frameStatus = "rendered"
    /\ focusTarget.type = "SATELLITE"
    /\ focusTarget.index.v = NumSats - 1
    /\ SpeedWasSet

\* C12: a click that hits nothing, or whose hit resolves to no member of the
\* satellite array, leaves focusTarget, trackingMode and activeSatIndex as
\* they were; a click that resolves to a member puts the focus on SATELLITE
\* with exactly the resolved index.
C12_PickSelectsOrIgnores ==
    [][\A pick \in Picks :
          click(pick) =>
             IF pick.hit /\ pick.index \in SatIndex
             THEN /\ focusTarget' = [type |-> "SATELLITE", index |-> Num(pick.index)]
                  /\ trackingMode' = "SATELLITE"
                  /\ activeSatIndex' = pick.index
             ELSE UNCHANGED focusVars]_vars

\* The last satellite of the array is in focus and active while the speed
\* and the clock are as constructed and no frame has run: a resolved pick.
C12_Witness ==
    /\ frames = 0
    /\ focusTarget = [type |-> "SATELLITE", index |-> Num(NumSats - 1)]
    /\ trackingMode = "SATELLITE"
    /\ activeSatIndex = NumSats - 1

\* The focus states of the claim and the inputs that move between them.
FocusStates ==
    {[type |-> t, index |-> Null] : t \in {"SYSTEM", "SUN", "EARTH", "MOON"}}
        \cup {[type |-> "SATELLITE", index |-> Num(i)] : i \in SatIndex}

FocusInput ==
    \/ \E mode \in Modes : onModeChange(mode)
    \/ \E index \in SatIndex : onSelectGPS(index)
    \/ backToSystem

\* C13: the focus starts at SYSTEM, and in every state each other focus
\* state (SYSTEM, SUN, EARTH, MOON, SATELLITE(i)) is one input away, by
\* onModeChange, onSelectGPS or backToSystem: there is no terminal state and
\* no forbidden transition.
C13_FocusFullyConnected ==
    /\ focusTarget = [type |-> "SYSTEM", index |-> Null]
    /\ [](\A target \in FocusStates \ {focusTarget} :
              ENABLED (FocusInput /\ focusTarget' = target))

\* A satellite other than the default one is in focus after frames have run,
\* a state with eight other focus states to leave to.
C13_Witness ==
    /\ frames >= 1
    /\ focusTarget = [type |-> "SATELLITE", index |-> Num(2)]
    /\ activeSatIndex = 2

\* C14: onModeChange('SATELLITE') always ends with focusTarget = SATELLITE
\* index 0 and activeSatIndex = 0, whatever satellite was active before.
C14_SatelliteModeDefaultsToFirst ==
    [][onModeChange("SATELLITE") =>
          /\ focusTarget' = [type |-> "SATELLITE", index |-> Num(0)]
          /\ trackingMode' = "SATELLITE"
          /\ activeSatIndex' = 0]_vars

\* Satellite 0 is focused and active, and a frame has rendered with it.
C14_Witness ==
    /\ frames >= 1
    /\ frameStatus = "rendered"
    /\ focusTarget = [type |-> "SATELLITE", index |-> Num(0)]
    /\ trackingMode = "SATELLITE"
    /\ activeSatIndex = 0

SplitDts == { k * 25000 : k \in 0..4 }
Splits == { ab \in SplitDts \X SplitDts : ab[1] + ab[2] <= MAX_PHYSICS_DT }

\* what two frames of real deltas a then b, and what one frame of a + b,
\* make of the timestamp t and of the satellite d
TwoFramesDate(t, a, b) ==
    AdvanceDate(AdvanceDate(t, ScaledDt(a, windowTimeScale)),
                ScaledDt(b, windowTimeScale))
OneFrameDate(t, a, b) == AdvanceDate(t, ScaledDt(a + b, windowTimeScale))
TwoFramesSatellite(d, a, b) ==
    StepSatellite(StepSatellite(d, ScaledDt(a, windowTimeScale)),
                  ScaledDt(b, windowTimeScale))
OneFrameSatellite(d, a, b) == StepSatellite(d, ScaledDt(a + b, windowTimeScale))

\* C16: from every state, frames of real deltas a then b (a, b, a + b <= 0.1 s,
\* same time scale) leave the simulated timestamp and each satellite's phase
\* angle and earthTime equal to those one frame of a + b leaves; and every
\* frame advances the timestamp by the dt it gives to the satellites.
C16_FrameRateIndependent ==
    /\ [](\A ab \in Splits :
             /\ TwoFramesDate(simulatedTime, ab[1], ab[2])
                    = OneFrameDate(simulatedTime, ab[1], ab[2])
             /\ \A i \in SatIndex :
                    LET two == TwoFramesSatellite(satellites[i], ab[1], ab[2])
                        one == OneFrameSatellite(satellites[i], ab[1], ab[2])
                    IN /\ two.angle = one.angle
                       /\ TEq(two.earthTime, one.earthTime))
    /\ [][IsFrame =>
             FrameAdvance * 1000 = simulatedElapsed' - simulatedElapsed]_vars

\* the operations the claim lists beside the frame
ListedOperation ==
    \/ \E index \in SelectInputs : onSelectGPS(index)
    \/ \E mode \in Modes : onModeChange(mode)
    \/ \E val \in SpeedInputs : onSpeedChange(val)
    \/ backToSystem
    \/ \E pick \in Picks : click(pick)

\* C17 as stated: the satellites' states and the simulated timestamp change
\* in frames only; every step that is not a frame leaves them as they were.
C17_OnlyFramesMutate ==
    [][~IsFrame => UNCHANGED <<satellites, simulatedTime>>]_vars

\* C17, amended: the satellites' states (phase angle, elapsed times, derived
\* orbital parameters) change in frames only; the simulated timestamp changes
\* in frames and in onReset only; onSelectGPS, onModeChange, onSpeedChange,
\* backToSystem and click leave both unchanged.
C17_FramesAndResetMutate ==
    [][/\ ~IsFrame => /\ satellites' = satellites
                      /\ simulatedTime' # simulatedTime => onReset
       /\ ListedOperation => UNCHANGED <<satellites, simulatedTime>>]_vars

\* Frames have run, then the speed input was used and a satellite selected,
\* and the timestamp still is the sum of the frames' advances.
C17_Witness ==
    /\ frames >= 2
    /\ SpeedWasSet
    /\ focusTarget.type = "SATELLITE"
    /\ simulatedElapsed > 0
    /\ simulatedTime * 1000 = simulatedElapsed

\* the Moon's heading relative to the line from the Earth to the Moon
MoonFaceToEarth == MoonYaw - MoonAzimuth

\* C18: the frame loop changes moonOrbitPivot.rotation.y only, never the
\* Moon's own local rotation or position, so at every step the Moon's
\* orientation relative to the Earth is the one it started with.
C18_TidallyLocked ==
    /\ [](MoonFaceToEarth = HALF_PI)
    /\ [][UNCHANGED moonMeshVars]_vars

\* The Moon has moved along its orbit over two frames.
C18_Witness ==
    /\ frames >= 2
    /\ moonOrbitPivotRotY > 0

\* The satellites of another run of the same program that has been given the
\* same frames: built with the draws angles, then advanced by the same
\* simulated time.
OtherRun(angles) ==
    IF frames = 0
    THEN createSatellites(angles)
    ELSE updateSatellites(createSatellites(angles), simulatedElapsed)

\* C19: two runs from the same configuration that get the same real frame
\* deltas and inputs have the same phase angle, elapsed times and drift for
\* every satellite at every frame.
C19_Deterministic ==
    \A angles \in InitAngles : \A i \in SatIndex :
        /\ satellites[i].angle = OtherRun(angles)[i].angle
        /\ satellites[i].earthTime = OtherRun(angles)[i].earthTime
        /\ satellites[i].satTime = OtherRun(angles)[i].satTime

\* C20: when a frame has read the world position of its focus target, it has
\* already advanced the timestamp by its dt, turned the body pivots and
\* updated the satellites with that same dt, and refreshed the scene's world
\* transforms after the last of these; so the position read is the one the
\* frame's own updateSatellites produced.
C20_FrameOrder ==
    targetPos.read =>
        /\ frameStart.running
        /\ simulatedTime = AdvanceDate(frameStart.simulatedTime, frameDt)
        /\ earthOrbitPivotRotY
              = Rotate(frameStart.bodies[1], EARTH_ORBIT_SPEED, frameDt)
        /\ moonOrbitPivotRotY
              = Rotate(frameStart.bodies[4], MOON_ORBIT_SPEED, frameDt)
        /\ satellites = updateSatellites(frameStart.satellites, frameDt)
        /\ targetPos.fromMatrixWorld = LocalTransforms
        /\ targetPos.position = TargetWorldPosition

\* A frame with a positive dt has read the position of a tracked satellite
\* and is about to render.
C20_Witness ==
    /\ At("render")
    /\ targetPos.read
    /\ targetPos.position.of = "satellite"
    /\ frameDt > 0
    /\ frames >= 1

\* userData with the properties updateSatellites writes blanked out
ApartFromMotion(d) ==
    [d EXCEPT !.angle = 0, !.earthTime = TUndefined, !.satTime = TUndefined]

\* what createSatellites makes of the registry, whatever the angles drawn
CreatedUserData ==
    [i \in SatIndex |-> ApartFromMotion(SatelliteUserData(i, 0))]

\* C21: in every state reached by frames and UI operations, velocity,
\* angularVelocity, realRadius and visualRadius of every satellite are the
\* values createSatellites computed from the registry, and so is all of
\* userData but the phase angle and the two elapsed times.
C21_ParametersFixed ==
    \A i \in SatIndex :
        LET d == satellites[i]
            created == CreatedUserData[i]
        IN /\ d.realRadius = R_EARTH + SATELLITE_REGISTRY[i].altitude
           /\ d.realRadius = created.realRadius
           /\ d.visualRadius = created.visualRadius
           /\ d.velocity = created.velocity
           /\ d.angularVelocity = created.angularVelocity
           /\ ApartFromMotion(d) = created

\* Frames have moved the GPS satellite along its orbit, and the speed input
\* and a mode button have been used.
C21_Witness ==
    /\ frames >= 2
    /\ satellites[1].angle \notin {0, TwoPi - 1}
    /\ satellites[1].earthTime # TUndefined
    /\ SpeedWasSet
    /\ trackingMode = "MOON"

\* C22: in every reachable state trackingMode is 'SATELLITE' exactly when
\* focusTarget.type is, activeSatIndex then is focusTarget.index, and with
\* the focus on SYSTEM trackingMode is 'EARTH'; so a satellite whose position
\* the frame reads for the camera is the one updateUI shows in detail.
C22_FocusVariablesAgree ==
    /\ trackingMode = "SATELLITE" <=> focusTarget.type = "SATELLITE"
    /\ focusTarget.type = "SATELLITE" =>
          /\ focusTarget.index.k = "number"
          /\ focusTarget.index.v = activeSatIndex
    /\ focusTarget.type = "SYSTEM" => trackingMode = "EARTH"
    /\ TargetWorldPosition.of = "satellite" =>
          TargetWorldPosition.index = focusTarget.index.v

\* A frame has rendered the detail view of the satellite the camera follows,
\* one that only a selection can put in focus.
C22_Witness ==
    /\ frames >= 1
    /\ frameStatus = "rendered"
    /\ trackingMode = "SATELLITE"
    /\ focusTarget = [type |-> "SATELLITE", index |-> Num(3)]
    /\ activeSatIndex = 3
    /\ matrixWorld.updated

====
